---- MODULE Spec2Model ----
(***************************************************************************)
(* Peano addition on edit-scripted trees (peano_addition.py).              *)
(*                                                                         *)
(* A tree is a pair (nodes, adj): nodes is the list of labels in preorder, *)
(* adj the list of child-index lists.  Python lists are modelled as        *)
(* sequences; an index i of the source is kept as i and read with At, so   *)
(* that the index arithmetic of the source is the arithmetic of the model. *)
(***************************************************************************)
EXTENDS Integers, Sequences, FiniteSets, TLC

VARIABLES
    pc,             \* "start", "generate", "simplify", "done", "predicted", "error"
    nodes,          \* node list of the tree in work
    adj,            \* adjacency list of the tree in work
    stk,            \* _generate_tree: stack of parent indices
    max_additions,  \* _generate_tree: addition operators still allowed
    max_input,      \* _generate_tree: largest numeral to sample
    generated,      \* TRUE iff the initial tree came from _generate_tree
    time_series,    \* _simplify: the trees so far
    script,         \* _simplify: the script of the last matching pass
    err,            \* the error raised, "none" if none
    model_out,      \* predict_step: the predictor's output for (nodes, adj)
    result          \* predict_step: the returned (script, nodes, adj)

vars == <<pc, nodes, adj, stk, max_additions, max_input, generated,
          time_series, script, err, model_out, result>>

----------------------------------------------------------------------------
(* Bounds of the model.                                                    *)

\* largest number of addition operators given to the generator
MaxAdditions == 3
\* largest max_input given to the generator with up to MaxAdditions operators
MaxInput == 2
\* largest number of addition operators given to the generator together with
\* the default max_input
MaxDefaultAdditions == 1
\* largest number of expression nodes (root excluded) of a directly supplied tree
MaxSize == 6
\* cap on the number of rewrite steps of one run of _simplify
MaxSteps == 80
\* largest number of expression nodes of a tree given to predict_step with
\* free decisions
MaxDecodeSize == 4
\* largest number of nodes whose decision is not "keep the node as it is"
MaxEdits == 2

----------------------------------------------------------------------------
(* Python lists as sequences, with the source's 0-based indices.           *)

At(a, i) == a[i + 1]

SetAt(a, i, v) == [a EXCEPT ![i + 1] = v]

\* a[lo:hi]
Slice(a, lo, hi) == SubSeq(a, lo + 1, hi)

\* a[lo:hi] += d on an integer array
AddSlice(a, lo, hi, d) ==
    [k \in 1..Len(a) |-> IF lo < k /\ k <= hi THEN a[k] + d ELSE a[k]]

\* del a[i]
DelAt(a, i) == SubSeq(a, 1, i) \o SubSeq(a, i + 2, Len(a))

\* a.insert(i, v)
InsAt(a, i, v) == SubSeq(a, 1, i) \o <<v>> \o SubSeq(a, i + 1, Len(a))

\* range(len(a))
Indices(a) == 0..(Len(a) - 1)

\* np.zeros(n, dtype=int)
Zeros(n) == [k \in 1..n |-> 0]

----------------------------------------------------------------------------
(* The alphabet and the conversions between numerals and integers.         *)

alphabet == <<"+", "0", "1", "2", "3", "4", "5", "6", "7", "8", "9", "succ", "root">>

Labels == {alphabet[k] : k \in 1..Len(alphabet)}

Numerals == {At(alphabet, k) : k \in 1..10}

\* int(label) for a numeral label
ToInt(label) == (CHOOSE k \in 1..10 : At(alphabet, k) = label) - 1

\* str(n): the numerals for 0..9, and the decimal strings next to them
ToStr(n) ==
    IF n \in 0..9 THEN At(alphabet, n + 1)
    ELSE IF n = -1 THEN "-1"
    ELSE IF n = 10 THEN "10"
    ELSE "int"

\* alphabet.index(label)
AlphabetIndex(label) == (CHOOSE k \in 1..Len(alphabet) : alphabet[k] = label) - 1

----------------------------------------------------------------------------
(* Trees.                                                                  *)

Tree(ns, ad) == [nodes |-> ns, adj |-> ad]

\* the parent array pi of the source: pi[j] = i for every child j of i, 0 for
\* a node that is nobody's child
Parents(t) ==
    [k \in 1..Len(t.nodes) |->
        IF \E i \in Indices(t.nodes) : \E c \in 1..Len(At(t.adj, i)) : At(t.adj, i)[c] = k - 1
        THEN CHOOSE i \in Indices(t.nodes) :
                 /\ \E c \in 1..Len(At(t.adj, i)) : At(t.adj, i)[c] = k - 1
                 /\ \A i2 \in Indices(t.nodes) :
                        (\E c \in 1..Len(At(t.adj, i2)) : At(t.adj, i2)[c] = k - 1) => i2 <= i
        ELSE 0]

\* j = i; while adj[j]: j = adj[j][-1]
RECURSIVE RightmostDescendant(_, _)
RightmostDescendant(ad, j) ==
    IF At(ad, j) = <<>> THEN j
    ELSE RightmostDescendant(ad, At(ad, j)[Len(At(ad, j))])

----------------------------------------------------------------------------
(* Edit operations and Script.apply (edist.tree_edits), after section 4.2  *)
(* of the specification.  The tree under edit carries ids, a ghost array   *)
(* that holds for every node the index it had before the script (-1 for a  *)
(* node the script inserted).                                              *)

Deletion(pos) == [op |-> "del", pos |-> pos]

Insertion(pos, slot, label, span) ==
    [op |-> "ins", pos |-> pos, slot |-> slot, label |-> label, span |-> span]

Replacement(pos, label) == [op |-> "rep", pos |-> pos, label |-> label]

EditState(t) ==
    [nodes |-> t.nodes, adj |-> t.adj, ids |-> [k \in 1..Len(t.nodes) |-> k - 1],
     err |-> "none"]

Failed(s, kind) == [s EXCEPT !.err = kind]

\* the child list with the entry pos replaced by the children of pos
RECURSIVE Promote(_, _, _)
Promote(list, pos, children) ==
    IF list = <<>> THEN <<>>
    ELSE (IF Head(list) = pos THEN children ELSE <<Head(list)>>)
             \o Promote(Tail(list), pos, children)

Renumber(list, from, d) ==
    [c \in 1..Len(list) |-> IF list[c] >= from THEN list[c] + d ELSE list[c]]

\* Deletion(pos): the node is spliced out of its parent's child list, its
\* children take its place, and every index above pos is decremented
ApplyDeletion(op, s) ==
    IF op.pos < 0 \/ op.pos >= Len(s.nodes) THEN Failed(s, "OutOfRange")
    ELSE LET children == At(s.adj, op.pos)
             spliced  == [k \in 1..Len(s.adj) |-> Promote(s.adj[k], op.pos, children)]
             dropped  == DelAt(spliced, op.pos)
         IN  [nodes |-> DelAt(s.nodes, op.pos),
              adj   |-> [k \in 1..Len(dropped) |-> Renumber(dropped[k], op.pos + 1, -1)],
              ids   |-> DelAt(s.ids, op.pos),
              err   |-> "none"]

\* Insertion(pos, slot, label, span): a new node becomes the child of pos at
\* slot and takes over span children of pos from slot on; it gets the index
\* of the child at slot, or the index after the last descendant of pos
ApplyInsertion(op, s) ==
    IF op.pos < 0 \/ op.pos >= Len(s.nodes) THEN Failed(s, "OutOfRange")
    ELSE LET children == At(s.adj, op.pos)
         IN  IF op.slot < 0 \/ op.span < 0 \/ op.slot + op.span > Len(children)
             THEN Failed(s, "InvalidSpan")
             ELSE LET idx     == IF op.slot < Len(children) THEN At(children, op.slot)
                                 ELSE RightmostDescendant(s.adj, op.pos) + 1
                      shifted == [k \in 1..Len(s.adj) |-> Renumber(s.adj[k], idx, 1)]
                      list    == At(shifted, op.pos)
                      owner   == Slice(list, 0, op.slot) \o <<idx>>
                                     \o Slice(list, op.slot + op.span, Len(list))
                      taken   == Slice(list, op.slot, op.slot + op.span)
                  IN  [nodes |-> InsAt(s.nodes, idx, op.label),
                       adj   |-> InsAt(SetAt(shifted, op.pos, owner), idx, taken),
                       ids   |-> InsAt(s.ids, idx, -1),
                       err   |-> "none"]

\* Replacement(pos, label): the label of pos changes, nothing else
ApplyReplacement(op, s) ==
    IF op.pos < 0 \/ op.pos >= Len(s.nodes) THEN Failed(s, "OutOfRange")
    ELSE [s EXCEPT !.nodes = SetAt(s.nodes, op.pos, op.label)]

ApplyEdit(op, s) ==
    IF op.op = "del" THEN ApplyDeletion(op, s)
    ELSE IF op.op = "ins" THEN ApplyInsertion(op, s)
    ELSE ApplyReplacement(op, s)

\* the first n operations of the script applied in order; the first failure
\* ends the application
RECURSIVE ApplyPrefix(_, _, _)
ApplyPrefix(sc, n, s) ==
    IF n = 0 THEN s
    ELSE LET before == ApplyPrefix(sc, n - 1, s)
         IN  IF before.err /= "none" THEN before ELSE ApplyEdit(sc[n], before)

\* script.apply(nodes, adj)
Apply(sc, t) == ApplyPrefix(sc, Len(sc), EditState(t))

----------------------------------------------------------------------------
(* _simplify: one matching pass (lines 193-235).  The pass state st holds  *)
(* the script so far and the index_shift array.                            *)

\* rule 1 with the deletion of the 0 forgotten
Rule1KeepsZero(t, i, right, st) ==
    [script |-> Append(st.script, Deletion(i + At(st.shift, i))),
     shift  |-> AddSlice(st.shift, i + 1, Len(t.nodes), -1)]

\* rule 1, lines 207-213: +(m, 0): delete the + and the 0
Rule1(t, i, right, st) ==
    LET n   == Len(t.nodes)
        s1  == Append(st.script, Deletion(i + At(st.shift, i)))
        sh1 == AddSlice(st.shift, i + 1, n, -1)
        s2  == Append(s1, Deletion(right + At(sh1, right)))
        sh2 == AddSlice(sh1, right + 1, n, -1)
    IN  [script |-> s2, shift |-> sh2]

\* rule 2, lines 214-219: +(m, succ(n)): a succ above the left child, the
\* right succ deleted
Rule2(t, i, right, st) ==
    LET s1  == Append(st.script, Insertion(i + At(st.shift, i), 0, "succ", 1))
        sh1 == AddSlice(st.shift, i + 1, right + 1, 1)
        s2  == Append(s1, Deletion(right + At(sh1, right)))
    IN  [script |-> s2, shift |-> sh1]

\* rule 3 with an insertion that takes over no child
Rule3EmptySpan(t, i, right, st) ==
    LET pred == ToStr(ToInt(At(t.nodes, right)) - 1)
        s1   == Append(st.script, Insertion(i + At(st.shift, i), 1, "succ", 0))
        sh1  == AddSlice(st.shift, right, Len(t.nodes), 1)
        s2   == Append(s1, Replacement(right + At(sh1, right), pred))
    IN  [script |-> s2, shift |-> sh1]

\* rule 3 with the numeral left as it is
Rule3KeepsNumeral(t, i, right, st) ==
    LET s1  == Append(st.script, Insertion(i + At(st.shift, i), 1, "succ", 1))
        sh1 == AddSlice(st.shift, right, Len(t.nodes), 1)
        s2  == Append(s1, Replacement(right + At(sh1, right), At(t.nodes, right)))
    IN  [script |-> s2, shift |-> sh1]

\* rule 3, lines 220-227: +(m, n): a succ above the right child, n replaced
\* by n - 1
Rule3(t, i, right, st) ==
    LET n    == Len(t.nodes)
        pred == ToStr(ToInt(At(t.nodes, right)) - 1)
        s1   == Append(st.script, Insertion(i + At(st.shift, i), 1, "succ", 1))
        sh1  == AddSlice(st.shift, right, n, 1)
        s2   == Append(s1, Replacement(right + At(sh1, right), pred))
    IN  [script |-> s2, shift |-> sh1]

\* rule 4 with the numeral left as it is
Rule4KeepsNumeral(t, i, child, st) ==
    LET s1  == Append(st.script, Deletion(i + At(st.shift, i)))
        sh1 == AddSlice(st.shift, i + 1, Len(t.nodes), -1)
        s2  == Append(s1, Replacement(child + At(sh1, child), At(t.nodes, child)))
    IN  [script |-> s2, shift |-> sh1]

\* rule 4 with the index shift of the deletion forgotten
Rule4NoShift(t, i, child, st) ==
    LET s1 == Append(st.script, Deletion(i + At(st.shift, i)))
        s2 == Append(s1, Replacement(child + At(st.shift, child),
                                     ToStr((ToInt(At(t.nodes, child)) + 1) % 10)))
    IN  [script |-> s2, shift |-> st.shift]

\* rule 4, lines 231-235: succ(n): delete the succ, n replaced by n + 1 mod 10
Rule4(t, i, child, st) ==
    LET n   == Len(t.nodes)
        s1  == Append(st.script, Deletion(i + At(st.shift, i)))
        sh1 == AddSlice(st.shift, i + 1, n, -1)
        s2  == Append(s1, Replacement(child + At(sh1, child),
                                      ToStr((ToInt(At(t.nodes, child)) + 1) % 10)))
    IN  [script |-> s2, shift |-> sh1]

\* the guard of rule 4 without the exception for the left child of a +
SuccGuardParentOnly(t, pi, i) ==
    At(t.nodes, i) = "succ" /\ At(t.nodes, At(pi, i)) # "+"

\* line 228: nodes[i] == 'succ' and (nodes[pi[i]] != '+' or pi[i] == i-1)
SuccGuard(t, pi, i) ==
    /\ At(t.nodes, i) = "succ"
    /\ (At(t.nodes, At(pi, i)) # "+" \/ At(pi, i) = i - 1)

\* the loop body without rule 3
MatchNodeNoUnfold(t, pi, i, st) ==
    IF At(t.nodes, i) = "+"
    THEN LET right == At(At(t.adj, i), 1)
         IN  IF At(t.nodes, right) = "0" THEN Rule1(t, i, right, st)
             ELSE IF At(t.nodes, right) = "succ" THEN Rule2(t, i, right, st)
             ELSE st
    ELSE IF SuccGuard(t, pi, i)
    THEN LET child == At(At(t.adj, i), 0)
         IN  IF At(t.nodes, child) \notin {"succ", "+"} THEN Rule4(t, i, child, st)
             ELSE st
    ELSE st

\* the body of the loop of lines 203-235 for one i
MatchNode(t, pi, i, st) ==
    IF At(t.nodes, i) = "+"
    THEN LET right == At(At(t.adj, i), 1)
         IN  IF At(t.nodes, right) = "0" THEN Rule1(t, i, right, st)
             ELSE IF At(t.nodes, right) = "succ" THEN Rule2(t, i, right, st)
             ELSE IF At(t.nodes, right) # "+" THEN Rule3(t, i, right, st)
             ELSE st
    ELSE IF SuccGuard(t, pi, i)
    THEN LET child == At(At(t.adj, i), 0)
         IN  IF At(t.nodes, child) \notin {"succ", "+"} THEN Rule4(t, i, child, st)
             ELSE st
    ELSE st

\* the loop of lines 203-235 up to and including node n - 1
RECURSIVE MatchUpTo(_, _, _)
MatchUpTo(t, pi, n) ==
    IF n = 0 THEN [script |-> <<>>, shift |-> Zeros(Len(t.nodes))]
    ELSE MatchNode(t, pi, n - 1, MatchUpTo(t, pi, n - 1))

\* the script of one pass over the tree t
Match(t) == MatchUpTo(t, Parents(t), Len(t.nodes)).script

----------------------------------------------------------------------------
(* The trees a caller can hand to _simplify, predict_step and              *)
(* peano_alignment: every well-formed expression of at most MaxSize nodes  *)
(* over +, succ and the numerals 0, 1, 2 and 9, under a root.              *)

InputNumerals == {"0", "1", "2", "9"}

ShiftAdj(ad, d) == [k \in 1..Len(ad) |-> [c \in 1..Len(ad[k]) |-> ad[k][c] + d]]

\* the expressions of exactly size nodes, indexed from 0
RECURSIVE Terms(_)
Terms(size) ==
    IF size < 1 THEN {}
    ELSE IF size = 1 THEN {Tree(<<l>>, << <<>> >>) : l \in InputNumerals}
    ELSE {Tree(<<"succ">> \o x.nodes, << <<1>> >> \o ShiftAdj(x.adj, 1)) : x \in Terms(size - 1)}
         \cup UNION {
              {Tree(<<"+">> \o x.nodes \o y.nodes,
                    << <<1, 1 + a>> >> \o ShiftAdj(x.adj, 1) \o ShiftAdj(y.adj, 1 + a)) :
                   <<x, y>> \in Terms(a) \X Terms(size - 1 - a)} : a \in 1..(size - 2)}

UnderRoot(x) == Tree(<<"root">> \o x.nodes, << <<1>> >> \o ShiftAdj(x.adj, 1))

InputTrees(maxsize) == UNION {{UnderRoot(x) : x \in Terms(size)} : size \in 1..maxsize}

----------------------------------------------------------------------------
(* peano_alignment (lines 487-541).  The pass state st holds the mapping   *)
(* left_to_right (map, with keys the indices that have an entry) and the   *)
(* index_shift array.                                                      *)

\* lines 501-507
AlignRule1(t, i, right, st) ==
    LET n   == Len(t.nodes)
        sh1 == AddSlice(st.shift, i, n, -1)
        sh2 == AddSlice(sh1, right + 1, n, -1)
    IN  [map   |-> SetAt(SetAt(st.map, i, -1), right, -1),
         keys  |-> st.keys \cup {i, right},
         shift |-> sh2]

\* the alignment of rule 2 with the deleted succ not marked
AlignRule2KeepsRight(t, i, right, st) ==
    [st EXCEPT !.shift = AddSlice(st.shift, i + 1, right + 1, 1)]

\* lines 508-512
AlignRule2(t, i, right, st) ==
    [map   |-> SetAt(st.map, right, -1),
     keys  |-> st.keys \cup {right},
     shift |-> AddSlice(st.shift, i + 1, right + 1, 1)]

\* the alignment of rule 3 with the index shift of the insertion forgotten
AlignRule3NoShift(t, i, right, st) == st

\* lines 513-517
AlignRule3(t, i, right, st) ==
    [st EXCEPT !.shift = AddSlice(st.shift, right, Len(t.nodes), 1)]

\* lines 518-524
AlignRule4(t, i, child, st) ==
    [map   |-> SetAt(st.map, i, -1),
     keys  |-> st.keys \cup {i},
     shift |-> AddSlice(st.shift, i, Len(t.nodes), -1)]

\* the body of the loop of lines 497-526 for one i
AlignNode(t, pi, i, st) ==
    LET after ==
            IF At(t.nodes, i) = "+"
            THEN LET right == At(At(t.adj, i), 1)
                 IN  IF At(t.nodes, right) = "0" THEN AlignRule1(t, i, right, st)
                     ELSE IF At(t.nodes, right) = "succ" THEN AlignRule2(t, i, right, st)
                     ELSE IF At(t.nodes, right) # "+" THEN AlignRule3(t, i, right, st)
                     ELSE st
            ELSE IF SuccGuard(t, pi, i)
            THEN LET child == At(At(t.adj, i), 0)
                 IN  IF At(t.nodes, child) \notin {"succ", "+"} THEN AlignRule4(t, i, child, st)
                     ELSE st
            ELSE st
    IN  IF i \notin after.keys
        THEN [after EXCEPT !.map = SetAt(after.map, i, i + At(after.shift, i)),
                           !.keys = after.keys \cup {i}]
        ELSE after

RECURSIVE AlignUpTo(_, _, _)
AlignUpTo(t, pi, n) ==
    IF n = 0 THEN [map |-> Zeros(Len(t.nodes)), keys |-> {}, shift |-> Zeros(Len(t.nodes))]
    ELSE AlignNode(t, pi, n - 1, AlignUpTo(t, pi, n - 1))

\* left_to_right after the loop of lines 497-526
LeftToRight(t) == AlignUpTo(t, Parents(t), Len(t.nodes)).map

\* while j < left_to_right[i]: append (-1, j); j += 1
RECURSIVE InsertedPairs(_, _)
InsertedPairs(j, upto) ==
    IF j < upto THEN <<(<<-1, j>>)>> \o InsertedPairs(j + 1, upto) ELSE <<>>

\* the loop of lines 529-539 from (i, j) on
RECURSIVE MergeFrom(_, _, _, _)
MergeFrom(l2r, n, i, j) ==
    IF i >= n THEN <<>>
    ELSE IF At(l2r, i) < 0
    THEN <<(<<i, -1>>)>> \o MergeFrom(l2r, n, i + 1, j)
    ELSE LET j2 == IF j < At(l2r, i) THEN At(l2r, i) ELSE j
         IN  InsertedPairs(j, At(l2r, i)) \o <<(<<i, j2>>)>>
                 \o MergeFrom(l2r, n, i + 1, j2 + 1)

\* peano_alignment(nodes, adj, next_nodes, next_adj): the successor is not read
peano_alignment(t, next) == MergeFrom(LeftToRight(t), Len(t.nodes), 0, 0)

----------------------------------------------------------------------------
(* compute_loss: the targets derived from the rules (lines 282-323).       *)
(* Scores are kept in tenths: One is the score 1.0, Half the threshold 0.5.*)

One == 10
Half == 5

\* lines 293-297
TargetRule1(t, i, right, tg) ==
    [tg EXCEPT !.delta = SetAt(SetAt(tg.delta, i, -One), right, -One)]

\* lines 298-305
TargetRule2(t, i, right, tg) ==
    [delta |-> SetAt(SetAt(tg.delta, i, One), right, -One),
     types |-> SetAt(tg.types, i, AlphabetIndex("succ")),
     Cidx  |-> SetAt(tg.Cidx, i, 0),
     Cnum  |-> SetAt(tg.Cnum, i, 1)]

\* lines 306-315
TargetRule3(t, i, right, tg) ==
    [delta |-> SetAt(tg.delta, i, One),
     types |-> SetAt(SetAt(tg.types, i, AlphabetIndex("succ")), right,
                     AlphabetIndex(ToStr(ToInt(At(t.nodes, right)) - 1))),
     Cidx  |-> SetAt(tg.Cidx, i, 1),
     Cnum  |-> SetAt(tg.Cnum, i, 1)]

\* lines 319-323
TargetRule4(t, i, child, tg) ==
    [tg EXCEPT !.delta = SetAt(tg.delta, i, -One),
               !.types = SetAt(tg.types, child,
                               AlphabetIndex(ToStr((ToInt(At(t.nodes, child)) + 1) % 10)))]

\* the body of the loop of lines 289-323 for one i
TargetNode(t, pi, i, tg) ==
    IF At(t.nodes, i) = "+"
    THEN LET right == At(At(t.adj, i), 1)
         IN  IF At(t.nodes, right) = "0" THEN TargetRule1(t, i, right, tg)
             ELSE IF At(t.nodes, right) = "succ" THEN TargetRule2(t, i, right, tg)
             ELSE IF At(t.nodes, right) # "+" THEN TargetRule3(t, i, right, tg)
             ELSE tg
    ELSE IF SuccGuard(t, pi, i)
    THEN LET child == At(At(t.adj, i), 0)
         IN  IF At(t.nodes, child) \notin {"succ", "+"} THEN TargetRule4(t, i, child, tg)
             ELSE tg
    ELSE tg

\* lines 282-288 and the loop of lines 289-323 up to and including node n - 1
RECURSIVE TargetsUpTo(_, _, _)
TargetsUpTo(t, pi, n) ==
    IF n = 0
    THEN [delta |-> Zeros(Len(t.nodes)),
          types |-> [k \in 1..Len(t.nodes) |-> AlphabetIndex(t.nodes[k])],
          Cidx  |-> Zeros(Len(t.nodes)),
          Cnum  |-> Zeros(Len(t.nodes))]
    ELSE TargetNode(t, pi, n - 1, TargetsUpTo(t, pi, n - 1))

Targets(t) == TargetsUpTo(t, Parents(t), Len(t.nodes))

\* the predictor output that the loss of lines 325-362 drives to: the target
\* delta, the target label and child slot as the most likely ones, and an
\* association score above the threshold on the Cnum children from Cidx on
ExactOutput(t) ==
    LET tg == Targets(t)
    IN  [delta |-> tg.delta,
         types |-> tg.types,
         Cidx  |-> tg.Cidx,
         Cnum  |-> [k \in 1..Len(t.nodes) |->
                       [c \in 1..Len(t.adj[k]) |->
                           IF tg.Cidx[k] < c /\ c <= tg.Cidx[k] + tg.Cnum[k] THEN One ELSE 0]]]

----------------------------------------------------------------------------
(* predict_step (lines 411-462).  out is the predictor's output: delta[i]  *)
(* the structural score, types[i] and Cidx[i] the most likely label index  *)
(* and child slot (the argmax of lines 417, 429 and 432), Cnum[i] the      *)
(* association scores of the children of i.  Every emitted operation is    *)
(* kept with the node it was made for (ghost field node).                  *)

\* lines 413-421 for one i
PredictReplacement(t, out, i, edits) ==
    IF At(out.delta, i) > Half \/ At(out.delta, i) < -Half THEN edits
    ELSE LET type_pred == At(alphabet, At(out.types, i))
         IN  IF type_pred # At(t.nodes, i)
             THEN Append(edits, [edit |-> Replacement(i, type_pred), node |-> i])
             ELSE edits

\* lines 434-436
RECURSIVE Span(_, _, _, _)
Span(row, count, c, C) ==
    IF c + C < count /\ At(row, c + C) > Half THEN Span(row, count, c, C + 1) ELSE C

\* the next untouched index taken to be the node after i, whatever the slot
NextUntouchedAfterNode(t, i, c) == i + 1

\* lines 440-446
NextUntouched(t, i, c) ==
    IF c < Len(At(t.adj, i)) THEN At(At(t.adj, i), c)
    ELSE RightmostDescendant(t.adj, i) + 1

\* the insertion with the slot clamped to the child count
PredictInsertionClamped(t, out, i, st) ==
    IF At(out.delta, i) <= Half THEN st
    ELSE LET type_pred == At(alphabet, At(out.types, i))
             count == Len(At(t.adj, i))
             c == IF At(out.Cidx, i) > count THEN count ELSE At(out.Cidx, i)
             C == Span(At(out.Cnum, i), count, c, 0)
             j == IF c < count THEN At(At(t.adj, i), c)
                  ELSE RightmostDescendant(t.adj, i) + 1
         IN  [edits |-> Append(st.edits,
                               [edit |-> Insertion(i + At(st.shift, i), c, type_pred, C),
                                node |-> i]),
              shift |-> AddSlice(st.shift, j, Len(t.nodes), 1)]

\* lines 426-447 for one i
PredictInsertion(t, out, i, st) ==
    IF At(out.delta, i) <= Half THEN st
    ELSE LET type_pred == At(alphabet, At(out.types, i))
             c == At(out.Cidx, i)
             C == Span(At(out.Cnum, i), Len(At(t.adj, i)), c, 0)
             j == NextUntouched(t, i, c)
         IN  [edits |-> Append(st.edits,
                               [edit |-> Insertion(i + At(st.shift, i), c, type_pred, C),
                                node |-> i]),
              shift |-> AddSlice(st.shift, j, Len(t.nodes), 1)]

\* the deletion positioned without the insertion shift
PredictDeletionUnshifted(t, out, i, st) ==
    IF At(out.delta, i) >= -Half THEN st
    ELSE [st EXCEPT !.edits = Append(st.edits, [edit |-> Deletion(i), node |-> i])]

\* lines 451-454 for one i
PredictDeletion(t, out, i, st) ==
    IF At(out.delta, i) >= -Half THEN st
    ELSE [st EXCEPT !.edits = Append(st.edits,
                                     [edit |-> Deletion(i + At(st.shift, i)), node |-> i])]

RECURSIVE ReplacementsUpTo(_, _, _)
ReplacementsUpTo(t, out, n) ==
    IF n = 0 THEN <<>>
    ELSE PredictReplacement(t, out, n - 1, ReplacementsUpTo(t, out, n - 1))

RECURSIVE InsertionsUpTo(_, _, _)
InsertionsUpTo(t, out, n) ==
    IF n = 0
    THEN [edits |-> ReplacementsUpTo(t, out, Len(t.nodes)), shift |-> Zeros(Len(t.nodes))]
    ELSE PredictInsertion(t, out, n - 1, InsertionsUpTo(t, out, n - 1))

\* the loop of lines 451-454, which runs from the last node down to node i
RECURSIVE DeletionsDownTo(_, _, _)
DeletionsDownTo(t, out, i) ==
    IF i >= Len(t.nodes) THEN InsertionsUpTo(t, out, Len(t.nodes))
    ELSE PredictDeletion(t, out, i, DeletionsDownTo(t, out, i + 1))

\* the operations of the script of lines 411-454, each with its node
PredictEdits(t, out) == DeletionsDownTo(t, out, 0).edits

\* the script of lines 411-454
PredictScript(t, out) ==
    LET edits == PredictEdits(t, out) IN [k \in 1..Len(edits) |-> edits[k].edit]

\* the predictor outputs for t in which at most MaxEdits nodes are not kept
\* as they are: such a node is deleted, relabelled, or gets an insertion at
\* any child slot up to one past its child count with any association scores
KeepOutput(t) ==
    [delta |-> Zeros(Len(t.nodes)),
     types |-> [k \in 1..Len(t.nodes) |-> AlphabetIndex(t.nodes[k])],
     Cidx  |-> Zeros(Len(t.nodes)),
     Cnum  |-> [k \in 1..Len(t.nodes) |-> Zeros(Len(t.adj[k]))]]

NodeDecisions(t, i) ==
    LET own   == AlphabetIndex(At(t.nodes, i))
        count == Len(At(t.adj, i))
    IN  {[delta |-> -One, types |-> own, Cidx |-> 0, Cnum |-> Zeros(count)]}
        \cup {[delta |-> 0,
               types |-> AlphabetIndex(IF At(t.nodes, i) = "0" THEN "1" ELSE "0"),
               Cidx |-> 0, Cnum |-> Zeros(count)]}
        \cup {[delta |-> One, types |-> AlphabetIndex("succ"), Cidx |-> c, Cnum |-> row] :
                 c \in 0..(count + 1), row \in [1..count -> {0, One}]}

WithDecision(out, i, d) ==
    [delta |-> SetAt(out.delta, i, d.delta),
     types |-> SetAt(out.types, i, d.types),
     Cidx  |-> SetAt(out.Cidx, i, d.Cidx),
     Cnum  |-> SetAt(out.Cnum, i, d.Cnum)]

RECURSIVE EditedOutputs(_, _, _)
EditedOutputs(t, from, edits) ==
    {KeepOutput(t)} \cup
    (IF edits = 0 THEN {}
     ELSE UNION {{WithDecision(out, i, d) :
                     out \in EditedOutputs(t, i + 1, edits - 1), d \in NodeDecisions(t, i)} :
                 i \in from..(Len(t.nodes) - 1)})

\* the trees predict_step is given with free decisions
DecodeTrees ==
    {t \in InputTrees(MaxDecodeSize) : \A k \in 1..Len(t.nodes) : t.nodes[k] \notin {"2", "9"}}

----------------------------------------------------------------------------
(* State machine.                                                          *)

NoOutput == <<>>

Init ==
    /\ pc = "start"
    /\ nodes = <<>>
    /\ adj = <<>>
    /\ stk = <<>>
    /\ max_additions = 0
    /\ max_input = 0
    /\ generated = FALSE
    /\ time_series = <<>>
    /\ script = <<>>
    /\ err = "none"
    /\ model_out = NoOutput
    /\ result = NoOutput

\* the default of max_input, line 53
DefaultMaxInput == 9

\* generate_time_series calls _generate_tree(ma, mi): lines 117-133
GenerateTree(ma, mi) ==
    /\ pc = "start"
    /\ IF mi < 1
       THEN /\ pc' = "error"
            /\ err' = "ValueError"
            /\ UNCHANGED <<nodes, adj, stk, max_additions, max_input, generated>>
       ELSE IF (IF mi > 9 THEN mi % 10 ELSE mi) = 0
       THEN /\ pc' = "error"
            /\ err' = "ZeroDivisionError"
            /\ UNCHANGED <<nodes, adj, stk, max_additions, max_input, generated>>
       ELSE /\ pc' = "generate"
            /\ max_input' = (IF mi > 9 THEN mi % 10 ELSE mi)
            /\ max_additions' = ma
            /\ nodes' = <<"root">>
            /\ adj' = << <<>> >>
            /\ stk' = <<0>>
            /\ generated' = TRUE
            /\ err' = "none"
    /\ UNCHANGED <<time_series, script, model_out, result>>

\* the indices r with nonzero probability, lines 122-126 and 140-143
Sampled(ma, mi) == (IF ma > 0 THEN {0} ELSE {}) \cup 2..(mi + 1)

\* one iteration of the loop of lines 134-154 with the sampled index r; when
\* the stack runs empty the tree is returned and _simplify starts (line 189)
GenerateNode(r) ==
    /\ pc = "generate"
    /\ stk # <<>>
    /\ r \in Sampled(max_additions, max_input)
    /\ LET p     == stk[Len(stk)]
           i     == Len(nodes)
           label == At(alphabet, r)
           ns    == Append(nodes, label)
           ad    == SetAt(Append(adj, <<>>), p, Append(At(adj, p), i))
           st    == IF label = "+" THEN SubSeq(stk, 1, Len(stk) - 1) \o <<i, i>>
                    ELSE SubSeq(stk, 1, Len(stk) - 1)
       IN  /\ nodes' = ns
           /\ adj' = ad
           /\ stk' = st
           /\ IF st = <<>>
              THEN /\ pc' = "simplify"
                   /\ time_series' = <<Tree(ns, ad)>>
                   /\ max_additions' = 0
                   /\ max_input' = 0
              ELSE /\ pc' = "generate"
                   /\ max_additions' = (IF label = "+" THEN max_additions - 1 ELSE max_additions)
                   /\ UNCHANGED <<time_series, max_input>>
    /\ UNCHANGED <<generated, script, err, model_out, result>>

\* the arguments a caller can choose from: a function is entered only from
\* the start state, so there is nothing to choose once a run is under way
Callable(inputs) == IF pc = "start" THEN inputs ELSE {}

\* _simplify(nodes, adj) called with a tree of the caller: line 189
Simplify(t) ==
    /\ pc = "start"
    /\ pc' = "simplify"
    /\ nodes' = t.nodes
    /\ adj' = t.adj
    /\ time_series' = <<t>>
    /\ UNCHANGED <<stk, max_additions, max_input, generated, script, err, model_out, result>>

\* one iteration of the loop of lines 190-244
SimplifyPass ==
    /\ pc = "simplify"
    /\ Len(time_series) <= MaxSteps
    /\ LET t  == Tree(nodes, adj)
           sc == Match(t)
           r  == Apply(sc, t)
       IN  /\ script' = sc
           /\ IF Len(sc) = 0
              THEN /\ pc' = "done"
                   /\ UNCHANGED <<nodes, adj, time_series, err>>
              ELSE IF r.err # "none"
              THEN /\ pc' = "error"
                   /\ err' = r.err
                   /\ UNCHANGED <<nodes, adj, time_series>>
              ELSE /\ pc' = "simplify"
                   /\ nodes' = r.nodes
                   /\ adj' = r.adj
                   /\ time_series' = Append(time_series, Tree(r.nodes, r.adj))
                   /\ UNCHANGED err
    /\ UNCHANGED <<stk, max_additions, max_input, generated, model_out, result>>

Next ==
    \/ \E ma \in 0..MaxAdditions : \E mi \in 0..MaxInput : GenerateTree(ma, mi)
    \/ \E ma \in 0..MaxDefaultAdditions : GenerateTree(ma, DefaultMaxInput)
    \/ \E r \in 0..(DefaultMaxInput + 1) : GenerateNode(r)
    \/ \E t \in Callable(InputTrees(MaxSize)) : Simplify(t)
    \/ SimplifyPass

Spec == Init /\ [][Next]_vars

\* predict_step(model, nodes, adj) where the model returns out for the tree:
\* lines 408-462
PredictStep(t, out) ==
    /\ pc = "start"
    /\ nodes' = t.nodes
    /\ adj' = t.adj
    /\ model_out' = out
    /\ LET sc == PredictScript(t, out)
           r  == Apply(sc, t)
       IN  IF r.err # "none"
           THEN /\ pc' = "error"
                /\ err' = r.err
                /\ result' = NoOutput
           ELSE /\ pc' = "predicted"
                /\ err' = "none"
                /\ result' = [script |-> sc, nodes |-> r.nodes, adj |-> r.adj]
    /\ UNCHANGED <<stk, max_additions, max_input, generated, time_series, script>>

NextDecode ==
    \/ \E t \in Callable(InputTrees(MaxSize)) : PredictStep(t, ExactOutput(t))
    \/ \E t \in Callable(DecodeTrees) : \E out \in EditedOutputs(t, 0, MaxEdits) :
           PredictStep(t, out)

SpecDecode == Init /\ [][NextDecode]_vars



----------------------------------------------------------------------------
(* Notions the properties are stated with.                                 *)

First == time_series[1]

Current == Tree(nodes, adj)

\* the number of rewrite steps so far: the length of the trace minus one
Steps == Len(time_series) - 1

CountLabel(t, label) == Cardinality({i \in Indices(t.nodes) : At(t.nodes, i) = label})

LargestNumeral(t) ==
    LET values == {ToInt(At(t.nodes, i)) : i \in {k \in Indices(t.nodes) : At(t.nodes, k) \in Numerals}}
    IN  IF values = {} THEN 0 ELSE CHOOSE v \in values : \A w \in values : w <= v

Arity(label) == IF label = "+" THEN 2 ELSE IF label \in {"succ", "root"} THEN 1 ELSE 0

RECURSIVE Preorder(_, _)
RECURSIVE PreorderOfList(_, _)
Preorder(ad, i) == <<i>> \o PreorderOfList(ad, At(ad, i))
PreorderOfList(ad, list) ==
    IF list = <<>> THEN <<>> ELSE Preorder(ad, Head(list)) \o PreorderOfList(ad, Tail(list))

\* the tree invariant of section 3 of the specification
WellFormed(t) ==
    /\ Len(t.nodes) = Len(t.adj)
    /\ Len(t.nodes) >= 2
    /\ At(t.nodes, 0) = "root"
    /\ \A i \in Indices(t.nodes) :
          /\ At(t.nodes, i) \in Labels
          /\ i > 0 => At(t.nodes, i) # "root"
          /\ Len(At(t.adj, i)) = Arity(At(t.nodes, i))
          /\ \A c \in 1..Len(At(t.adj, i)) :
                At(t.adj, i)[c] > i /\ At(t.adj, i)[c] < Len(t.nodes)
    /\ \A j \in Indices(t.nodes) :
          Cardinality({pc2 \in Indices(t.nodes) \X (1..2) :
                          /\ pc2[2] <= Len(At(t.adj, pc2[1]))
                          /\ At(t.adj, pc2[1])[pc2[2]] = j})
              = (IF j = 0 THEN 0 ELSE 1)
    /\ Preorder(t.adj, 0) = [k \in 1..Len(t.nodes) |-> k - 1]

\* root -> one numeral
SingleNumeral(t) ==
    /\ Len(t.nodes) = 2
    /\ At(t.nodes, 0) = "root"
    /\ At(t.nodes, 1) \in Numerals
    /\ t.adj = << <<1>>, <<>> >>

RightChildOfPlus(t, i) ==
    \E p \in Indices(t.nodes) :
        At(t.nodes, p) = "+" /\ Len(At(t.adj, p)) >= 2 /\ At(At(t.adj, p), 1) = i

\* an operation that addresses the tree s as it stands
OpValid(op, s) ==
    /\ s.err = "none"
    /\ op.pos \in Indices(s.nodes)
    /\ op.op = "ins" => op.slot + op.span <= Len(At(s.adj, op.pos))

----------------------------------------------------------------------------
(* C1: for every well-formed input tree the fixpoint driver terminates,    *)
(* and the last tree of the trace is root -> one numeral.  Every pass      *)
(* either ends the loop or lengthens the trace, so the loop terminates if  *)
(* the trace stays short of the cap MaxSteps (the guard of SimplifyPass)   *)
(* and no script fails; the loop ends only with pc = "done".               *)
C1_TerminatesInNumeral ==
    /\ err \notin {"OutOfRange", "InvalidSpan"}
    /\ pc = "simplify" => Steps < MaxSteps
    /\ pc = "done" => SingleNumeral(Current)

C1_Witness ==
    /\ pc = "done"
    /\ Steps >= 3
    /\ CountLabel(First, "+") >= 2
    /\ CountLabel(First, "succ") >= 1

(* C2 as stated: for a generated tree the number of rewrite steps is at    *)
(* most the number of '+' nodes plus the largest numeral of the initial    *)
(* tree.                                                                   *)
C2_Original ==
    (generated /\ pc = "done")
        => Steps <= CountLabel(First, "+") + LargestNumeral(First)

\* every addition takes at most two passes per unit of a numeral 0..9 on its
\* right and one pass for the base case
StepsPerAddition == 2 * ToInt("9") + 1

\* the trees _generate_tree can return: a well-formed tree under the root
\* whose labels are '+' and the numerals 1..9
GeneratorGrammar(t) ==
    /\ \A i \in 1..(Len(t.nodes) - 1) : At(t.nodes, i) \in ({"+"} \cup (Numerals \ {"0"}))
    /\ WellFormed(t)

(* C2, amended: for a tree of the generator grammar, generated or supplied,*)
(* the number of rewrite steps is at most 19 per '+' node of the initial   *)
(* tree, and a single addition +(a, b) of two numerals takes exactly       *)
(* 2b + 1 steps.                                                           *)
C2_StepBound ==
    /\ (generated /\ pc \in {"simplify", "done"}) => GeneratorGrammar(First)
    /\ (pc \in {"simplify", "done"} /\ GeneratorGrammar(First))
           => /\ Steps <= StepsPerAddition * CountLabel(First, "+")
              /\ (pc = "done" /\ CountLabel(First, "+") = 1)
                     => Steps = 2 * ToInt(At(First.nodes, 3)) + 1

\* a generated addition +(a, 9): the 19 steps of the bound are taken, and
\* they are more than the one '+' plus the largest numeral
C2_Witness ==
    /\ generated
    /\ pc = "done"
    /\ CountLabel(First, "+") = 1
    /\ At(First.nodes, 3) = "9"
    /\ Steps = StepsPerAddition
    /\ Steps > CountLabel(First, "+") + LargestNumeral(First)

(* C3: every operation of the script of one matching pass is valid when it *)
(* is applied in script order (positions exist, slot + span within the     *)
(* child count), so applying the script never fails.                       *)
C3_ScriptValid ==
    /\ err \notin {"OutOfRange", "InvalidSpan"}
    /\ pc \in {"simplify", "done"} =>
          LET sc == Match(Current)
          IN  \A k \in 1..Len(sc) :
                  OpValid(sc[k], ApplyPrefix(sc, k - 1, EditState(Current)))

\* three rules fired in one pass and their script was applied
C3_Witness ==
    /\ pc = "simplify"
    /\ Steps >= 1
    /\ Len(script) >= 6
    /\ err = "none"

ExampleTree ==
    Tree(<<"root", "+", "1", "succ", "0">>, << <<1>>, <<2, 3>>, <<>>, <<4>>, <<>> >>)

ExampleCarried ==
    Tree(<<"root", "+", "succ", "1", "0">>, << <<1>>, <<2, 4>>, <<3>>, <<>>, <<>> >>)

ExampleSucc == Tree(<<"root", "succ", "1">>, << <<1>>, <<2>>, <<>> >>)

ExampleTwo == Tree(<<"root", "2">>, << <<1>>, <<>> >>)

(* C4 as stated: root->+(1, succ(0)) reduces in three steps, with          *)
(* root->succ(1) as an intermediate tree.                                  *)
C4_Original ==
    (pc = "done" /\ First = ExampleTree)
        => time_series = <<ExampleTree, ExampleCarried, ExampleSucc, ExampleTwo>>

(* C4, amended: root->+(1, succ(0)) reduces in two steps, to               *)
(* root->+(succ(1), 0) and then to root->2: the base case and the          *)
(* resolution of succ(1) fire in the same pass.                            *)
C4_ExampleTrace ==
    (pc = "done" /\ First = ExampleTree)
        => time_series = <<ExampleTree, ExampleCarried, ExampleTwo>>

C4_Witness == pc = "done" /\ First = ExampleTree

\* the pairs of an alignment between a tree of n nodes and one of m nodes
AlignmentCovers(al, n, m) ==
    /\ \A k \in 1..Len(al) :
          /\ al[k][1] \in -1..(n - 1)
          /\ al[k][2] \in -1..(m - 1)
          /\ al[k] # <<-1, -1>>
    /\ \A i \in 0..(n - 1) : Cardinality({k \in 1..Len(al) : al[k][1] = i}) = 1
    /\ \A j \in 0..(m - 1) : Cardinality({k \in 1..Len(al) : al[k][2] = j}) = 1
    /\ \A k, l \in 1..Len(al) :
          k < l => /\ (al[k][1] >= 0 /\ al[l][1] >= 0) => al[k][1] < al[l][1]
                   /\ (al[k][2] >= 0 /\ al[l][2] >= 0) => al[k][2] < al[l][2]

LastAlignment ==
    peano_alignment(time_series[Len(time_series) - 1], time_series[Len(time_series)])

(* C5: for consecutive trees of a trace, peano_alignment has every index   *)
(* of the tree exactly once on the left, every index of the successor      *)
(* exactly once on the right, no pair (-1, -1), and both sides increasing. *)
C5_AlignmentTotal ==
    Len(time_series) >= 2 =>
        AlignmentCovers(LastAlignment,
                        Len(time_series[Len(time_series) - 1].nodes),
                        Len(time_series[Len(time_series)].nodes))

\* a step with an inserted node and two deleted ones
C5_Witness ==
    /\ Len(time_series) >= 2
    /\ \E k \in 1..Len(LastAlignment) : LastAlignment[k][1] = -1
    /\ Cardinality({k \in 1..Len(LastAlignment) : LastAlignment[k][2] = -1}) >= 2

(* C6: with the decisions that compute_loss derives from the rules,        *)
(* predict_step returns the tree that one pass of _simplify produces.      *)
C6_DecodeReproducesMatch ==
    (pc \in {"predicted", "error"} /\ model_out = ExactOutput(Current)) =>
        LET r == Apply(Match(Current), Current)
        IN  /\ pc = "predicted"
            /\ r.err = "none"
            /\ result.nodes = r.nodes
            /\ result.adj = r.adj

\* the decoded script has an insertion and a deletion, and is not the script
\* of the matching pass
C6_Witness ==
    /\ pc = "predicted"
    /\ model_out = ExactOutput(Current)
    /\ result.script # Match(Current)
    /\ \E k \in 1..Len(result.script) : result.script[k].op = "ins"
    /\ \E k \in 1..Len(result.script) : result.script[k].op = "del"
    /\ \E k \in 1..Len(result.script) : result.script[k].op = "rep"

SlotsWithinCount(t, out) ==
    \A i \in Indices(t.nodes) :
        At(out.delta, i) > Half => At(out.Cidx, i) <= Len(At(t.adj, i))

(* C7: if every insert decision has a child slot within the child count,   *)
(* every operation of the script of predict_step addresses, in the tree    *)
(* left by the earlier operations, the node the decision was made for.     *)
C7_AddressesOwnNode ==
    (pc \in {"predicted", "error"} /\ SlotsWithinCount(Current, model_out)) =>
        LET edits == PredictEdits(Current, model_out)
            sc    == PredictScript(Current, model_out)
        IN  \A k \in 1..Len(sc) :
                LET s == ApplyPrefix(sc, k - 1, EditState(Current))
                IN  /\ s.err = "none"
                    /\ sc[k].pos \in Indices(s.nodes)
                    /\ At(s.ids, sc[k].pos) = edits[k].node

\* an insertion at a shifted position and a deletion at a shifted position
C7_Witness ==
    /\ pc = "predicted"
    /\ SlotsWithinCount(Current, model_out)
    /\ LET edits == PredictEdits(Current, model_out)
       IN  /\ \E k \in 1..Len(edits) :
                  edits[k].edit.op = "ins" /\ edits[k].edit.pos # edits[k].node
           /\ \E k \in 1..Len(edits) :
                  edits[k].edit.op = "del" /\ edits[k].edit.pos # edits[k].node

(* C8: every tree of the trace of a generated input is well formed: arities,*)
(* one parent per node, preorder indices, labels of the alphabet.          *)
C8_TraceWellFormed ==
    (generated /\ pc \in {"simplify", "done"}) => WellFormed(Current)

\* a numeral 1 was unfolded to succ(0) on the way
C8_Witness ==
    /\ generated
    /\ pc = "done"
    /\ CountLabel(First, "+") >= 2
    /\ \E k \in 1..Len(time_series) : CountLabel(time_series[k], "0") >= 1

\* no rule of the module documentation (lines 9-14) applies anywhere in t
NoRuleApplies(t) ==
    /\ \A i \in Indices(t.nodes) :
          At(t.nodes, i) = "+" =>
              At(t.nodes, At(At(t.adj, i), 1)) \notin (Numerals \cup {"succ"})
    /\ \A i \in Indices(t.nodes) :
          (At(t.nodes, i) = "succ" /\ At(t.nodes, At(At(t.adj, i), 0)) \in Numerals)
              => RightChildOfPlus(t, i)

(* C9: the matching pass returns an empty script only if no rule applies   *)
(* anywhere in the tree, and the guard of rule 4 holds for a succ exactly  *)
(* when it is not the right child of a '+'.                                *)
C9_FixpointExact ==
    pc \in {"simplify", "done"} =>
        /\ Match(Current) = <<>> => NoRuleApplies(Current)
        /\ \A i \in Indices(nodes) :
              At(nodes, i) = "succ" =>
                  (SuccGuard(Current, Parents(Current), i) <=> ~RightChildOfPlus(Current, i))

\* a fixpoint reached through a tree with a succ as the left child of a '+'
C9_Witness ==
    /\ pc = "done"
    /\ Steps >= 1
    /\ \E k \in 1..Len(time_series) : \E i \in Indices(time_series[k].nodes) :
          /\ At(time_series[k].nodes, i) = "succ"
          /\ At(time_series[k].nodes, i - 1) = "+"
          /\ At(At(time_series[k].adj, i - 1), 0) = i

\* an insert decision whose slot, or slot plus span, exceeds the child count
ExceedsChildCount(t, out) ==
    \E i \in Indices(t.nodes) :
        /\ At(out.delta, i) > Half
        /\ \/ At(out.Cidx, i) > Len(At(t.adj, i))
           \/ At(out.Cidx, i) + Span(At(out.Cnum, i), Len(At(t.adj, i)), At(out.Cidx, i), 0)
                  > Len(At(t.adj, i))

(* C10 as stated: predict_step fails with InvalidDecision, returning       *)
(* nothing, whenever an insert decision exceeds the child count.           *)
C10_Original ==
    (pc \in {"predicted", "error"} /\ ExceedsChildCount(Current, model_out))
        => (pc = "error" /\ err = "InvalidDecision" /\ result = NoOutput)

(* C10, amended: predict_step has no check of its own; it fails, returning *)
(* nothing, exactly when a slot exceeds the child count, and the failure   *)
(* is the InvalidSpan of Script.apply; a slot within the child count never *)
(* gets a span beyond it.                                                  *)
C10_FailsInApply ==
    pc \in {"predicted", "error"} =>
        /\ ExceedsChildCount(Current, model_out) <=> pc = "error"
        /\ pc = "error" => (err = "InvalidSpan" /\ result = NoOutput)
        /\ \A k \in 1..Len(PredictScript(Current, model_out)) :
              LET op == PredictScript(Current, model_out)[k]
                  i  == PredictEdits(Current, model_out)[k].node
              IN  (op.op = "ins" /\ op.slot <= Len(At(adj, i)))
                      => op.slot + op.span <= Len(At(adj, i))

C10_Witness ==
    /\ pc = "error"
    /\ ExceedsChildCount(Current, model_out)
    /\ result = NoOutput

\* the tree before the last rewrite step
Previous == time_series[Len(time_series) - 1]

\* the pairs the script of the step stands for, read from the original
\* indices r.ids of the n-node tree after the script: a surviving node with
\* its index in the successor, a deleted node, an inserted node
ScriptPairs(r, n) ==
    {<<At(r.ids, j), j>> : j \in {k \in Indices(r.ids) : At(r.ids, k) >= 0}}
        \cup {<<i, -1>> : i \in {k \in 0..(n - 1) : \A j \in Indices(r.ids) : At(r.ids, j) # k}}
        \cup {<<-1, j>> : j \in {k \in Indices(r.ids) : At(r.ids, k) = -1}}

\* the labels on the two sides of the pairs: a surviving node keeps its
\* label or is a numeral the script replaced; an inserted node is a succ
PairLabelsAgree(al, t, next, sc) ==
    LET replaced == {sc[e].label : e \in {x \in 1..Len(sc) : sc[x].op = "rep"}}
    IN  \A k \in 1..Len(al) :
            LET i == al[k][1]
                j == al[k][2]
            IN  /\ (i >= 0 /\ j >= 0) =>
                       \/ At(next.nodes, j) = At(t.nodes, i)
                       \/ /\ At(t.nodes, i) \in Numerals
                          /\ At(next.nodes, j) \in replaced
                /\ (i = -1 /\ j >= 0) => At(next.nodes, j) = "succ"

(* C11: for consecutive trees of a trace the pairs of peano_alignment are  *)
(* exactly the pairs of the edit script of that step: (i, j) when node i   *)
(* survives and has index j in the successor, with the same label or a     *)
(* numeral rewritten by rule 3 or 4; (i, -1) when the script deletes node  *)
(* i; (-1, j) when successor node j is a succ the script inserted.         *)
C11_AlignmentMatchesScript ==
    Len(time_series) >= 2 =>
        LET sc == Match(Previous)
            r  == Apply(sc, Previous)
            al == LastAlignment
        IN  /\ r.err = "none"
            /\ Tree(r.nodes, r.adj) = time_series[Len(time_series)]
            /\ {al[k] : k \in 1..Len(al)} = ScriptPairs(r, Len(Previous.nodes))
            /\ PairLabelsAgree(al, Previous, time_series[Len(time_series)], sc)

\* a step whose script inserts, deletes and replaces: rule 3 at one '+' and
\* rule 1 or rule 4 elsewhere in the same pass
C11_Witness ==
    /\ Len(time_series) >= 2
    /\ \E k \in 1..Len(LastAlignment) : LastAlignment[k][1] = -1
    /\ \E k \in 1..Len(LastAlignment) : LastAlignment[k][2] = -1
    /\ \E k \in 1..Len(LastAlignment) :
          /\ LastAlignment[k][1] >= 0
          /\ LastAlignment[k][2] >= 0
          /\ LastAlignment[k][1] # LastAlignment[k][2]
          /\ At(Previous.nodes, LastAlignment[k][1])
                 # At(time_series[Len(time_series)].nodes, LastAlignment[k][2])
    /\ \E e \in 1..Len(Match(Previous)) :
          Match(Previous)[e].op = "ins" /\ Match(Previous)[e].slot = 1
    /\ \E e \in 1..Len(Match(Previous)) :
          Match(Previous)[e].op = "ins" /\ Match(Previous)[e].slot = 0

\* the arithmetic value of the subtree at i: a numeral n is n, succ(x) is
\* x + 1, +(a, b) is a + b, and the root has the value of its child
RECURSIVE Value(_, _)
Value(t, i) ==
    LET label == At(t.nodes, i)
        child(c) == At(At(t.adj, i), c)
    IN  IF label = "+" THEN Value(t, child(0)) + Value(t, child(1))
        ELSE IF label = "succ" THEN Value(t, child(0)) + 1
        ELSE IF label = "root" THEN Value(t, child(0))
        ELSE ToInt(label)

\* the sum of the numerals among the first n nodes
RECURSIVE SumNumerals(_, _)
SumNumerals(t, n) ==
    IF n = 0 THEN 0
    ELSE SumNumerals(t, n - 1)
             + (IF At(t.nodes, n - 1) \in Numerals THEN ToInt(At(t.nodes, n - 1)) ELSE 0)

(* C12: every tree of a trace has the value of the first tree modulo 10,   *)
(* also when several rules fire in one pass, and the numeral of the final  *)
(* tree is (sum of the initial numerals + number of initial succ) mod 10.  *)
C12_ValuePreserved ==
    pc \in {"simplify", "done"} =>
        /\ \A k \in 1..Len(time_series) :
               Value(time_series[k], 0) % 10 = Value(First, 0) % 10
        /\ pc = "done" =>
               /\ SingleNumeral(Current)
               /\ ToInt(At(nodes, 1))
                      = (SumNumerals(First, Len(First.nodes)) + CountLabel(First, "succ")) % 10

\* a finished trace with a sum of 10 or more, a pass in which two rules
\* fired, and a succ(9) resolved to 0 on the way
C12_Witness ==
    /\ pc = "done"
    /\ Value(First, 0) >= 10
    /\ \E k \in 1..Len(time_series) : Len(Match(time_series[k])) >= 4
    /\ \E k \in 1..(Len(time_series) - 1) :
          /\ Value(time_series[k], 0) >= 10
          /\ Value(time_series[k + 1], 0) < 10

====
